---- MODULE Spec2Model ----
(***************************************************************************)
(* Model of kanga.cdaudio: the drive object's descriptor lifecycle         *)
(* (drive.py), the Linux backend's device-control operations and TOC       *)
(* decoding (linux.py) and the value types of cd.py.                       *)
(*                                                                         *)
(* Python exceptions are modelled by their class name in the `kind` field  *)
(* of an operation's outcome ("ok" when the operation returns).            *)
(***************************************************************************)
EXTENDS Integers, Sequences, FiniteSets, TLC

VARIABLES
    plat,          \* platform.system() of the running interpreter
    pc,            \* position of the construction of the drive object
    cls,           \* class the constructor was called on
    viaFilename,   \* TRUE when the object is being built by from_filename
    fdState,       \* the OS descriptor number: unopened / open / closed / reused
    closeCalls,    \* os.close calls issued on the descriptor number
    foreignCloses, \* of those, calls that closed a descriptor of somebody else
    ownedArg,      \* the owned argument passed to the constructor
    allocated,     \* __new__ returned an object
    handle,        \* self._handle
    owned,         \* self._owned
    raised,        \* exception raised by the failing construction step
    propagated,    \* exception that reached the caller of the constructor
    delRuns,       \* runs of __del__
    lastDel,       \* what the last __del__ run did
    lastOp,        \* last operation called on the constructed drive
    lastArg,       \* its argument, and what the device held when it ran
    result,        \* outcome of lastOp
    ioctlLog,      \* libc ioctl calls issued by lastOp, in order
    decoded        \* locals of get_track_information after its decode step

lifecycleVars == <<plat, pc, cls, viaFilename, fdState, closeCalls,
                   foreignCloses, ownedArg, allocated, handle, owned, raised,
                   propagated, delRuns, lastDel>>
opVars == <<lastOp, lastArg, result, ioctlLog, decoded>>
vars == <<plat, pc, cls, viaFilename, fdState, closeCalls, foreignCloses,
          ownedArg, allocated, handle, owned, raised, propagated, delRuns,
          lastDel, lastOp, lastArg, result, ioctlLog, decoded>>

(***************************************************************************)
(* Bounds of the model.                                                    *)
(***************************************************************************)
MaxDelRuns == 3
MaxTrack == 2

(***************************************************************************)
(* The descriptor number handed out by os.open; -1 is the value __del__    *)
(* stores after releasing.                                                 *)
(***************************************************************************)
Fd == 3
Released == -1
NoHandle == -2          \* attribute not assigned yet

Platforms == {"Linux", "Darwin"}
Classes == {"CDROMDrive", "LinuxCDROMDrive"}

EBADF == 9
ENOTTY == 25
EIO == 5
ENOMEDIUM == 123

(***************************************************************************)
(* os.close(fd) on the descriptor number: closing an open descriptor       *)
(* succeeds; closing a number that was closed before raises OSError(EBADF);*)
(* closing a number that has been handed out again closes the other        *)
(* owner's descriptor.                                                     *)
(***************************************************************************)
OsClose(fds) ==
    CASE fds = "open"   ->
             [state |-> "closed", err |-> "none", calls |-> 1, foreign |-> 0]
      [] fds = "reused" ->
             [state |-> "closed", err |-> "none", calls |-> 1, foreign |-> 1]
      [] OTHER          ->
             [state |-> fds, err |-> "OSError", calls |-> 1, foreign |-> 0]

\* CDROMDrive.__new__: the concrete class, or "none" when the platform is
\* rejected with RuntimeError.
Concrete(c, p) ==
    IF c = "CDROMDrive"
    THEN IF p = "Linux" THEN "LinuxCDROMDrive" ELSE "none"
    ELSE c

\* CDROMDrive.__del__, line 51: the guard of the release (and the guard
\* without its test of the handle, and without its test of the owned flag).
DelClosesAlways(o, h) == o
DelClosesUnowned(o, h) == h >= 0
DelCloses(o, h) == o /\ h >= 0

\* CDROMDrive.__del__, line 53: the handle stored after os.close returned.
DelHandleAfter(h) == Released

\* from_filename's except clause, line 174: close the descriptor that was
\* opened (and a clause that re-raises without closing).
HandlerSkipsClose(fds) ==
    [state |-> fds, err |-> "none", calls |-> 0, foreign |-> 0]
HandlerClose(fds) == OsClose(fds)

NoResult == [kind |-> "none", errno |-> 0, message |-> "", int |-> 0,
             status |-> "", tracks |-> <<>>, discs |-> <<>>]

Init ==
    /\ plat \in Platforms
    /\ pc = "idle"
    /\ cls = "none"
    /\ viaFilename = FALSE
    /\ fdState = "unopened"
    /\ closeCalls = 0
    /\ foreignCloses = 0
    /\ ownedArg = FALSE
    /\ allocated = FALSE
    /\ handle = NoHandle
    /\ owned = FALSE
    /\ raised = "none"
    /\ propagated = "none"
    /\ delRuns = 0
    /\ lastDel = "none"
    /\ lastOp = "none"
    /\ lastArg = <<>>
    /\ result = NoResult
    /\ ioctlLog = <<>>
    /\ decoded = <<>>

(***************************************************************************)
(* Construction.                                                           *)
(***************************************************************************)

\* from_filename, line 170: os.open succeeds and the constructor is entered
\* with owned = True (line 172), or os.open raises and nothing was opened.
FromFilename ==
    /\ pc = "idle"
    /\ \E c \in Classes, ok \in BOOLEAN :
         /\ cls' = c
         /\ IF ok
            THEN /\ fdState' = "open"
                 /\ pc' = "new"
                 /\ UNCHANGED <<raised, propagated>>
            ELSE /\ fdState' = "unopened"
                 /\ pc' = "failed"
                 /\ raised' = "OSError"
                 /\ propagated' = "OSError"
    /\ viaFilename' = TRUE
    /\ ownedArg' = TRUE
    /\ UNCHANGED <<plat, closeCalls, foreignCloses, allocated, handle, owned,
                   delRuns, lastDel, opVars>>

\* cls(handle, owned) called by a caller that opened the descriptor itself.
Construct ==
    /\ pc = "idle"
    /\ \E c \in Classes, o \in BOOLEAN :
         /\ cls' = c
         /\ ownedArg' = o
    /\ viaFilename' = FALSE
    /\ fdState' = "open"
    /\ pc' = "new"
    /\ UNCHANGED <<plat, closeCalls, foreignCloses, allocated, handle, owned,
                   raised, propagated, delRuns, lastDel, opVars>>

\* An exception leaves the constructor: from_filename's except clause takes
\* it, a direct caller receives it.
Fail(e) ==
    /\ raised' = e
    /\ IF viaFilename
       THEN pc' = "except" /\ propagated' = propagated
       ELSE pc' = "failed" /\ propagated' = e

\* CDROMDrive.__new__
New ==
    /\ pc = "new"
    /\ IF Concrete(cls, plat) = "none"
       THEN /\ Fail("RuntimeError")
            /\ allocated' = FALSE
       ELSE /\ allocated' = TRUE
            /\ pc' = "init"
            /\ UNCHANGED <<raised, propagated>>
    /\ UNCHANGED <<plat, cls, viaFilename, fdState, closeCalls,
                   foreignCloses, ownedArg, handle, owned, delRuns, lastDel,
                   opVars>>

\* CDROMDrive.__init__, reached first through LinuxCDROMDrive.__init__
BaseInit ==
    /\ pc = "init"
    /\ handle' = Fd
    /\ owned' = ownedArg
    /\ pc' = "backend_init"
    /\ UNCHANGED <<plat, cls, viaFilename, fdState, closeCalls,
                   foreignCloses, ownedArg, allocated, raised, propagated,
                   delRuns, lastDel, opVars>>

\* LinuxCDROMDrive.__init__ after the base initializer: loading libc and
\* binding ioctl succeed, or raise.
BackendInit ==
    /\ pc = "backend_init"
    /\ \/ /\ pc' = "constructed"
          /\ UNCHANGED <<raised, propagated>>
       \/ \E e \in {"OSError", "AttributeError"} : Fail(e)
    /\ UNCHANGED <<plat, cls, viaFilename, fdState, closeCalls,
                   foreignCloses, ownedArg, allocated, handle, owned,
                   delRuns, lastDel, opVars>>

\* from_filename, lines 173-175: close the descriptor, then re-raise; an
\* exception of os.close replaces the one being handled.
ExceptClose ==
    /\ pc = "except"
    /\ LET c == HandlerClose(fdState) IN
         /\ fdState' = c.state
         /\ closeCalls' = closeCalls + c.calls
         /\ foreignCloses' = foreignCloses + c.foreign
         /\ propagated' = IF c.err = "none" THEN raised ELSE c.err
    /\ pc' = "failed"
    /\ UNCHANGED <<plat, cls, viaFilename, ownedArg, allocated, handle,
                   owned, raised, delRuns, lastDel, opVars>>

\* CDROMDrive.__del__, run by the collector once the object is unreachable
\* (the traceback of a failed construction keeps it alive until the
\* exception has left from_filename) or called again by hand.  An exception
\* of os.close leaves line 53 unexecuted.
Del ==
    /\ allocated
    /\ pc \in {"constructed", "failed"}
    /\ delRuns < MaxDelRuns
    /\ delRuns' = delRuns + 1
    /\ IF DelCloses(owned, handle)
       THEN LET c == OsClose(fdState) IN
              /\ fdState' = c.state
              /\ closeCalls' = closeCalls + c.calls
              /\ foreignCloses' = foreignCloses + c.foreign
              /\ handle' = IF c.err = "none"
                           THEN DelHandleAfter(handle) ELSE handle
              /\ lastDel' = IF c.err = "none" THEN "closed" ELSE "close_raised"
       ELSE /\ lastDel' = "noop"
            /\ UNCHANGED <<fdState, closeCalls, foreignCloses, handle>>
    /\ UNCHANGED <<plat, pc, cls, viaFilename, ownedArg, allocated, owned,
                   raised, propagated, opVars>>

\* The process opens another file and the kernel hands out the lowest free
\* descriptor number, the one that was closed.
ReuseFd ==
    /\ fdState = "closed"
    /\ fdState' = "reused"
    /\ UNCHANGED <<plat, pc, cls, viaFilename, closeCalls, foreignCloses,
                   ownedArg, allocated, handle, owned, raised, propagated,
                   delRuns, lastDel, opVars>>

(***************************************************************************)
(* The device-control layer of the Linux backend.                          *)
(***************************************************************************)

\* linux/cdrom.h request codes (linux.py, lines 16-33)
CDROMPAUSE == 21249
CDROMRESUME == 21250
CDROMREADTOCHDR == 21253
CDROMREADTOCENTRY == 21254
CDROMSTOP == 21255
CDROMEJECT == 21257
CDROMRESET == 21266
CDROMSEEK == 21270
CDROMCLOSETRAY == 21273
CDROM_SELECT_DISC == 21283
CDROM_DRIVE_STATUS == 21286
CDROM_CHANGER_NSLOTS == 21288
CDROM_LOCKDOOR == 21289

CDROM_DATA_TRACK == 4

CDS_NO_INFO == 0
CDS_NO_DISC == 1
CDS_TRAY_OPEN == 2
CDS_DRIVE_NOT_READY == 3
CDS_DISC_OK == 4
CDS_AUDIO == 100
CDS_DATA_1 == 101
CDS_DATA_2 == 102
CDS_XA_2_1 == 103
CDS_XA_2_2 == 104
CDS_MIXED == 105

CDSL_CURRENT == 2147483647

LEADOUT_TRACK == 170
EINVAL == 22

\* os.strerror
StrError(e) ==
    CASE e = EIO -> "Input/output error"
      [] e = EBADF -> "Bad file descriptor"
      [] e = EINVAL -> "Invalid argument"
      [] e = ENOTTY -> "Inappropriate ioctl for device"
      [] e = ENOMEDIUM -> "No medium found"
      [] OTHER -> "Unknown error"

\* What libc's ioctl can answer on the descriptor the object holds: the
\* device's answer while the descriptor is open, EBADF once it is closed or
\* the handle is -1, ENOTTY from the file that took over the number.
SuccessRets == {0, 2}
DeviceAnswers(h, fds) ==
    IF h = Fd /\ fds = "open"
    THEN {[ret |-> -1, errno |-> e] : e \in {EIO, ENOMEDIUM}}
         \cup {[ret |-> r, errno |-> 0] : r \in SuccessRets}
    ELSE IF h = Fd /\ fds = "reused"
    THEN {[ret |-> -1, errno |-> ENOTTY]}
    ELSE {[ret |-> -1, errno |-> EBADF]}

\* Outcome of an operation: kind is "ok" or the class of the exception.
Returned(i, st, ts, ds) ==
    [kind |-> "ok", errno |-> 0, message |-> "", int |-> i, status |-> st,
     tracks |-> ts, discs |-> ds]
ReturnedNone == Returned(0, "", <<>>, <<>>)
Raised(k) ==
    [kind |-> k, errno |-> 0, message |-> "", int |-> 0, status |-> "",
     tracks |-> <<>>, discs |-> <<>>]
RaisedOS(e) ==
    [kind |-> "OSError", errno |-> e, message |-> StrError(e), int |-> 0,
     status |-> "", tracks |-> <<>>, discs |-> <<>>]

\* LinuxCDROMDrive.ioctl, lines 113-118: ioctl_arg is bound for an int, for
\* None and for a ctypes Structure or Union, and for nothing else.
IoctlArgBound(k) == k \in {"int", "none", "struct"}

\* LinuxCDROMDrive.ioctl, line 121: result < 0 (and the test result <= 0)
IoctlRaisesOnZero(ret) == ret <= 0
IoctlRaises(ret) == ret < 0

\* LinuxCDROMDrive.ioctl with a second attempt after a negative result.
IoctlRetrying(cmd, k, arg, ans) ==
    IF ~IoctlArgBound(k)
    THEN [calls |-> <<>>, out |-> Raised("UnboundLocalError")]
    ELSE LET call == [cmd |-> cmd, arg |-> arg, ret |-> ans.ret,
                      errno |-> ans.errno]
         IN  IF IoctlRaises(ans.ret)
             THEN [calls |-> <<call, call>>, out |-> RaisedOS(ans.errno)]
             ELSE [calls |-> <<call>>,
                   out |-> Returned(ans.ret, "", <<>>, <<>>)]

\* LinuxCDROMDrive.ioctl: calls is the list of libc calls made (none when
\* line 120 fails on the unbound ioctl_arg).
Ioctl(cmd, k, arg, ans) ==
    IF ~IoctlArgBound(k)
    THEN [calls |-> <<>>, out |-> Raised("UnboundLocalError")]
    ELSE LET call == [cmd |-> cmd, arg |-> arg, ret |-> ans.ret,
                      errno |-> ans.errno]
         IN  IF IoctlRaises(ans.ret)
             THEN [calls |-> <<call>>, out |-> RaisedOS(ans.errno)]
             ELSE [calls |-> <<call>>,
                   out |-> Returned(ans.ret, "", <<>>, <<>>)]

\* An operation that is one ioctl call: play, pause, stop, eject,
\* close_tray, lock, unlock, reset (result dropped) and _get_slot_count
\* (result returned).
DeviceOp(name, cmd, k, arg, returnsResult) ==
    /\ \E ans \in DeviceAnswers(handle, fdState) :
         LET r == Ioctl(cmd, k, arg, ans) IN
           /\ ioctlLog' = r.calls
           /\ result' = IF r.out.kind = "ok" /\ ~returnsResult
                        THEN ReturnedNone ELSE r.out
    /\ lastOp' = name
    /\ lastArg' = arg
    /\ decoded' = <<>>
    /\ UNCHANGED lifecycleVars

Play ==
    /\ pc = "constructed"
    /\ DeviceOp("play", CDROMRESUME, "none", 0, FALSE)
Pause ==
    /\ pc = "constructed"
    /\ DeviceOp("pause", CDROMPAUSE, "none", 0, FALSE)
Stop ==
    /\ pc = "constructed"
    /\ DeviceOp("stop", CDROMSTOP, "none", 0, FALSE)
Eject ==
    /\ pc = "constructed"
    /\ DeviceOp("eject", CDROMEJECT, "none", 0, FALSE)
CloseTray ==
    /\ pc = "constructed"
    /\ DeviceOp("close_tray", CDROMCLOSETRAY, "none", 0, FALSE)
Lock ==
    /\ pc = "constructed"
    /\ DeviceOp("lock", CDROM_LOCKDOOR, "int", 1, FALSE)
Unlock ==
    /\ pc = "constructed"
    /\ DeviceOp("unlock", CDROM_LOCKDOOR, "int", 0, FALSE)
Reset ==
    /\ pc = "constructed"
    /\ DeviceOp("reset", CDROMRESET, "none", 0, FALSE)
SlotCount ==
    /\ pc = "constructed"
    /\ DeviceOp("slot_count", CDROM_CHANGER_NSLOTS, "none", 0, TRUE)

(***************************************************************************)
(* seek, select_slot and the status query.                                 *)
(***************************************************************************)
SECONDS_PER_MINUTE == 60
FRAMES_PER_SECOND == 75

\* Arguments a caller may pass as a position: MSF tuples and one value that
\* is not an MSF.
Positions ==
    {[isMSF |-> TRUE, minute |-> m, second |-> sec, frame |-> f] :
        m \in {-1, 0, 73}, sec \in {-1, 59, 60}, f \in {-1, 74, 75}}
    \cup {[isMSF |-> FALSE, minute |-> 0, second |-> 0, frame |-> 0]}

\* MSF.is_valid
is_valid(p) ==
    /\ 0 <= p.minute
    /\ 0 <= p.second /\ p.second < SECONDS_PER_MINUTE
    /\ 0 <= p.frame /\ p.frame < FRAMES_PER_SECOND

\* LinuxCDROMDrive.seek with the CDROMSEEK call of lines 146-147 in place
\* of line 149; the SCSI driver answers it with EINVAL.
SeekThroughDevice(p) ==
    IF ~p.isMSF THEN [calls |-> <<>>, out |-> Raised("TypeError")]
    ELSE IF ~is_valid(p) THEN [calls |-> <<>>, out |-> Raised("ValueError")]
    ELSE [calls |-> <<[cmd |-> CDROMSEEK, arg |-> 0, ret |-> -1,
                       errno |-> EINVAL]>>,
          out |-> RaisedOS(EINVAL)]

\* LinuxCDROMDrive.seek
SeekOutcome(p) ==
    IF ~p.isMSF THEN [calls |-> <<>>, out |-> Raised("TypeError")]
    ELSE IF ~is_valid(p) THEN [calls |-> <<>>, out |-> Raised("ValueError")]
    ELSE [calls |-> <<>>, out |-> Raised("NotImplementedError")]

Seek ==
    /\ pc = "constructed"
    /\ \E p \in Positions :
         LET r == SeekOutcome(p) IN
           /\ ioctlLog' = r.calls
           /\ result' = r.out
           /\ lastArg' = p
    /\ lastOp' = "seek"
    /\ decoded' = <<>>
    /\ UNCHANGED lifecycleVars

\* Arguments a caller may pass as a slot.
SlotArgs ==
    {[isInt |-> TRUE, value |-> v] : v \in {-1, 0, 1}}
    \cup {[isInt |-> FALSE, value |-> 0]}

\* LinuxCDROMDrive.select_slot
SelectSlot ==
    /\ pc = "constructed"
    /\ \E v \in SlotArgs :
         /\ lastArg' = v
         /\ IF ~v.isInt
            THEN ioctlLog' = <<>> /\ result' = Raised("TypeError")
            ELSE IF v.value < 0
            THEN ioctlLog' = <<>> /\ result' = Raised("ValueError")
            ELSE \E ans \in DeviceAnswers(handle, fdState) :
                   LET r == Ioctl(CDROM_SELECT_DISC, "int", v.value, ans) IN
                     /\ ioctlLog' = r.calls
                     /\ result' = IF r.out.kind = "ok"
                                  THEN ReturnedNone ELSE r.out
    /\ lastOp' = "select_slot"
    /\ decoded' = <<>>
    /\ UNCHANGED lifecycleVars

\* CDROMDrive.slot_count and CDROMDrive._get_slot_count: what a backend
\* that does not implement changers inherits.
DefaultSlotCountOutcome ==
    [calls |-> <<>>, out |-> Raised("NotImplementedError")]

\* CDROMDrive.select_slot: what a backend that does not implement changers
\* inherits.
DefaultSelectSlotOutcome(v) ==
    [calls |-> <<>>, out |-> Raised("ValueError")]

\* slot_count resolved to the base class.
DefaultSlotCount ==
    /\ pc = "constructed"
    /\ ioctlLog' = DefaultSlotCountOutcome.calls
    /\ result' = DefaultSlotCountOutcome.out
    /\ lastOp' = "CDROMDrive.slot_count"
    /\ lastArg' = <<>>
    /\ decoded' = <<>>
    /\ UNCHANGED lifecycleVars

\* select_slot resolved to the base class.
DefaultSelectSlot ==
    /\ pc = "constructed"
    /\ \E v \in SlotArgs :
         LET r == DefaultSelectSlotOutcome(v) IN
           /\ ioctlLog' = r.calls
           /\ result' = r.out
           /\ lastArg' = v
    /\ lastOp' = "CDROMDrive.select_slot"
    /\ decoded' = <<>>
    /\ UNCHANGED lifecycleVars

\* Codes the CDROM_DRIVE_STATUS request can answer.
StatusCodes ==
    {CDS_NO_INFO, CDS_NO_DISC, CDS_TRAY_OPEN, CDS_DRIVE_NOT_READY,
     CDS_DISC_OK, CDS_AUDIO, CDS_DATA_1, CDS_DATA_2, CDS_XA_2_1, CDS_XA_2_2,
     CDS_MIXED}

\* LinuxCDROMDrive._get_status, lines 180-189
StatusOf(code) ==
    CASE code = CDS_NO_DISC -> "no_disc"
      [] code = CDS_TRAY_OPEN -> "tray_open"
      [] code = CDS_DRIVE_NOT_READY -> "not_ready"
      [] code = CDS_DISC_OK -> "ok"
      [] OTHER -> "unknown"

\* The method get_status resolves to on a LinuxCDROMDrive: the backend
\* defines _get_status only, so the base class's get_status runs.
GetStatusOverridden == FALSE

\* LinuxCDROMDrive._get_status: CDSL_CURRENT is a ctypes c_int, which
\* LinuxCDROMDrive.ioctl binds no argument for.
PrivateGetStatusOutcome(ans) ==
    LET r == Ioctl(CDROM_DRIVE_STATUS, "c_int", CDSL_CURRENT, ans) IN
      IF r.out.kind = "ok"
      THEN [calls |-> r.calls,
            out |-> Returned(0, StatusOf(r.out.int), <<>>, <<>>)]
      ELSE r

\* CDROMDrive.get_status
GetStatusOutcome(ans) ==
    IF GetStatusOverridden
    THEN PrivateGetStatusOutcome(ans)
    ELSE [calls |-> <<>>, out |-> Raised("NotImplementedError")]

\* The device's answer to a status request: an error or one of the codes.
StatusAnswers(h, fds) ==
    IF h = Fd /\ fds = "open"
    THEN {[ret |-> -1, errno |-> EIO]}
         \cup {[ret |-> c, errno |-> 0] : c \in StatusCodes}
    ELSE DeviceAnswers(h, fds)

GetStatus ==
    /\ pc = "constructed"
    /\ \E ans \in StatusAnswers(handle, fdState) :
         LET r == GetStatusOutcome(ans) IN
           /\ ioctlLog' = r.calls
           /\ result' = r.out
    /\ lastOp' = "get_status"
    /\ lastArg' = <<>>
    /\ decoded' = <<>>
    /\ UNCHANGED lifecycleVars

PrivateGetStatus ==
    /\ pc = "constructed"
    /\ \E ans \in StatusAnswers(handle, fdState) :
         LET r == PrivateGetStatusOutcome(ans) IN
           /\ ioctlLog' = r.calls
           /\ result' = r.out
    /\ lastOp' = "_get_status"
    /\ lastArg' = <<>>
    /\ decoded' = <<>>
    /\ UNCHANGED lifecycleVars

(***************************************************************************)
(* TOC queries.                                                            *)
(***************************************************************************)

\* Reading .value off the Python int that a ctypes structure field of a
\* simple type evaluates to (tochdr.cdth_trk0.value, te.cdte_addr.lba.value)
\* raises AttributeError.
IntHasValueAttr == FALSE

\* TrackInformation has the fields track, track_type, flags, start_frame;
\* get_track_information passes the keyword type=, which raises TypeError.
TrackInformationTakesType == FALSE

\* c_uint8 assignment: te.cdte_track = track keeps the low eight bits.
Uint8(n) == n % 256

\* (te.cdte_adr_ctrl & 0xf0) >> 4
ControlField(adr_ctrl) == (adr_ctrl \div 16) % 16

\* cdte_ctrl & CDROM_DATA_TRACK (and the test of the neighbouring bit,
\* cdte_ctrl & 0x08)
DataBitWrongMask(ctrl) == (ctrl \div 8) % 2 = 1
DataBit(ctrl) == (ctrl \div CDROM_DATA_TRACK) % 2 = 1

\* get_track_information, lines 223-231: the decoded track type
DecodeType(track, ctrl) ==
    IF track = LEADOUT_TRACK THEN "leadout"
    ELSE IF DataBit(ctrl) THEN "data"
    ELSE "audio"

\* get_track_information, lines 223-231: the decoded flags (and the flags
\* with line 228 keeping the whole control field)
DecodeFlagsUnmasked(track, ctrl) ==
    IF track = LEADOUT_TRACK THEN 0 ELSE ctrl
DecodeFlags(track, ctrl) ==
    IF track = LEADOUT_TRACK THEN 0
    ELSE IF DataBit(ctrl) THEN ctrl % 2
    ELSE ctrl

\* LinuxCDROMDrive.get_track_information: entry is what the device writes
\* into the cdrom_tocentry when the request succeeds.
GetTrackInformation(track, ans, entry) ==
    LET r == Ioctl(CDROMREADTOCENTRY, "struct", Uint8(track), ans)
        cdte_ctrl == ControlField(entry.adr_ctrl)
        track_type == DecodeType(track, cdte_ctrl)
        flags == DecodeFlags(track, cdte_ctrl)
        locals == [track |-> track, cdte_track |-> Uint8(track),
                   adr_ctrl |-> entry.adr_ctrl, cdte_ctrl |-> cdte_ctrl,
                   track_type |-> track_type, flags |-> flags,
                   lba |-> entry.lba]
    IN  IF r.out.kind # "ok"
        THEN [calls |-> r.calls, out |-> r.out, locals |-> <<>>]
        ELSE IF ~IntHasValueAttr
        THEN [calls |-> r.calls, out |-> Raised("AttributeError"),
              locals |-> <<locals>>]
        ELSE IF ~TrackInformationTakesType
        THEN [calls |-> r.calls, out |-> Raised("TypeError"),
              locals |-> <<locals>>]
        ELSE [calls |-> r.calls,
              out |-> Returned(0, "",
                        <<[track |-> track, track_type |-> track_type,
                           flags |-> flags, start_frame |-> entry.lba]>>,
                        <<>>),
              locals |-> <<locals>>]

\* Track numbers a caller may pass.
TrackArgs == {-1, 0, 1, 99, 100, LEADOUT_TRACK, LEADOUT_TRACK + 256}

\* Control/address bytes the device may return: every control nibble with
\* address nibble 0, and three more address nibbles.
CtrlBytes == {16 * h : h \in 0..15} \cup {1, 65, 79}
Entries ==
    {[adr_ctrl |-> c, lba |-> 0] : c \in CtrlBytes}
    \cup {[adr_ctrl |-> c, lba |-> 150] : c \in {0, 64}}
NoEntry == [adr_ctrl |-> 0, lba |-> 0]

GetTrackInformationOp ==
    /\ pc = "constructed"
    /\ \E track \in TrackArgs, ans \in DeviceAnswers(handle, fdState) :
         \E entry \in IF ans.ret < 0 THEN {NoEntry} ELSE Entries :
           LET r == GetTrackInformation(track, ans, entry) IN
             /\ ioctlLog' = r.calls
             /\ result' = r.out
             /\ decoded' = r.locals
             /\ lastArg' = [track |-> track, entry |-> entry]
    /\ lastOp' = "get_track_information"
    /\ UNCHANGED lifecycleVars

\* What the disc in the drive holds: the TOC header's track numbers and an
\* entry per track.  Two layouts: every track audio, or the first track in
\* the header a data track followed by audio tracks.
TocLayouts == {"audio", "mixed"}
HeaderTracks == 0..MaxTrack
TocEntry(layout, first, t) ==
    IF t = LEADOUT_TRACK THEN [adr_ctrl |-> 1, lba |-> 1000 * (MaxTrack + 1)]
    ELSE IF layout = "mixed" /\ t = first THEN [adr_ctrl |-> 65, lba |-> 1000 * t]
    ELSE [adr_ctrl |-> 17, lba |-> 1000 * t]

\* The answer to the n-th TOC-entry request of one get_disc_information
\* call, when the failAt-th one fails (failAt = 0: none does).
EntryAnswer(n, failAt) ==
    IF n = failAt THEN [ret |-> -1, errno |-> EIO] ELSE [ret |-> 0, errno |-> 0]

\* get_disc_information, lines 201-202: the loop over
\* range(first_track, last_track + 1); an exception of
\* get_track_information ends the call.
RECURSIVE TrackLoop(_, _, _, _, _, _)
TrackLoop(track, last_track, first_track, layout, failAt, acc) ==
    IF track > last_track THEN acc
    ELSE LET n == Len(acc.calls)       \* the header request was the first
             g == GetTrackInformation(track, EntryAnswer(n, failAt),
                                      TocEntry(layout, first_track, track))
             next == [calls |-> acc.calls \o g.calls,
                      out |-> g.out,
                      locals |-> acc.locals \o g.locals,
                      infos |-> acc.infos \o g.out.tracks]
         IN  IF g.out.kind # "ok" THEN next
             ELSE TrackLoop(track + 1, last_track, first_track, layout,
                            failAt, next)

\* LinuxCDROMDrive.get_disc_information
GetDiscInformation(hdrAns, first_track, last_track, layout, failAt) ==
    LET h == Ioctl(CDROMREADTOCHDR, "struct", 0, hdrAns) IN
      IF h.out.kind # "ok"
      THEN [calls |-> h.calls, out |-> h.out, locals |-> <<>>]
      ELSE IF ~IntHasValueAttr
      THEN [calls |-> h.calls, out |-> Raised("AttributeError"),
            locals |-> <<>>]
      ELSE
        LET loop == TrackLoop(first_track, last_track, first_track, layout,
                              failAt,
                              [calls |-> h.calls, out |-> ReturnedNone,
                               locals |-> <<>>, infos |-> <<>>])
        IN  IF loop.out.kind # "ok"
            THEN [calls |-> loop.calls, out |-> loop.out,
                  locals |-> loop.locals]
            ELSE
              LET g == GetTrackInformation(
                         LEADOUT_TRACK,
                         EntryAnswer(Len(loop.calls), failAt),
                         TocEntry(layout, first_track, LEADOUT_TRACK))
              IN  IF g.out.kind # "ok"
                  THEN [calls |-> loop.calls \o g.calls, out |-> g.out,
                        locals |-> loop.locals \o g.locals]
                  ELSE [calls |-> loop.calls \o g.calls,
                        out |-> Returned(0, "", <<>>,
                                  <<[first_track |-> first_track,
                                     last_track |-> last_track,
                                     track_information |->
                                         loop.infos \o g.out.tracks]>>),
                        locals |-> loop.locals \o g.locals]

GetDiscInformationOp ==
    /\ pc = "constructed"
    /\ \E hdrAns \in DeviceAnswers(handle, fdState) :
         \E first \in IF hdrAns.ret < 0 THEN {0} ELSE HeaderTracks,
            last \in IF hdrAns.ret < 0 THEN {0} ELSE HeaderTracks,
            layout \in IF hdrAns.ret < 0 THEN {"audio"} ELSE TocLayouts,
            failAt \in IF hdrAns.ret < 0 THEN {0} ELSE 0..(MaxTrack + 2) :
           LET r == GetDiscInformation(hdrAns, first, last, layout, failAt)
           IN  /\ ioctlLog' = r.calls
               /\ result' = r.out
               /\ decoded' = r.locals
               /\ lastArg' = [first |-> first, last |-> last,
                              failAt |-> failAt]
    /\ lastOp' = "get_disc_information"
    /\ UNCHANGED lifecycleVars

(***************************************************************************)
(* Specifications.                                                         *)
(*                                                                         *)
(* Spec: the life of a drive object, from the call of the constructor or   *)
(* of from_filename to the runs of its finalizer, with the one-request     *)
(* operations called on it in between.                                     *)
(*                                                                         *)
(* SpecDev: every operation of the backend, called in any order on a       *)
(* drive object that has been constructed; the object holds its open       *)
(* descriptor, or has released it (and the number may have been handed     *)
(* out again).                                                             *)
(***************************************************************************)
Next ==
    \/ FromFilename
    \/ Construct
    \/ New
    \/ BaseInit
    \/ BackendInit
    \/ ExceptClose
    \/ Del
    \/ ReuseFd
    \/ Play
    \/ Pause
    \/ Stop
    \/ Eject
    \/ CloseTray
    \/ Lock
    \/ Unlock
    \/ Reset
    \/ SlotCount

Spec == Init /\ [][Next]_vars

InitDev ==
    /\ plat = "Linux"
    /\ pc = "constructed"
    /\ cls = "CDROMDrive"
    /\ viaFilename = TRUE
    /\ ownedArg = TRUE
    /\ allocated = TRUE
    /\ owned = TRUE
    /\ raised = "none"
    /\ propagated = "none"
    /\ foreignCloses = 0
    /\ \/ /\ handle = Fd
          /\ fdState = "open"
          /\ closeCalls = 0
          /\ delRuns = 0
          /\ lastDel = "none"
       \/ /\ handle = Released
          /\ fdState \in {"closed", "reused"}
          /\ closeCalls = 1
          /\ delRuns = 1
          /\ lastDel = "closed"
    /\ lastOp = "none"
    /\ lastArg = <<>>
    /\ result = NoResult
    /\ ioctlLog = <<>>
    /\ decoded = <<>>

NextDev ==
    \/ Play
    \/ Pause
    \/ Stop
    \/ Eject
    \/ CloseTray
    \/ Lock
    \/ Unlock
    \/ Reset
    \/ SlotCount
    \/ Seek
    \/ SelectSlot
    \/ DefaultSlotCount
    \/ DefaultSelectSlot
    \/ GetStatus
    \/ PrivateGetStatus
    \/ GetTrackInformationOp
    \/ GetDiscInformationOp

SpecDev == InitDev /\ [][NextDev]_vars

\* ---------------------------------------------------------------------
\* Value types of kanga.cdaudio.cd
\* ---------------------------------------------------------------------

FRAMES_PER_MINUTE == FRAMES_PER_SECOND * SECONDS_PER_MINUTE
GAP_FRAMES == 150
TRACK_MAX == 99
INDEX_MAX == 99

\* What a value-type operation returned.
Produced(v) == [kind |-> "ok", value |-> v]

\* MSF.lba
MSF_lba(p) ==
    p.minute * FRAMES_PER_MINUTE + p.second * FRAMES_PER_SECOND + p.frame

\* MSF.from_lba with a rounding-up minute split.
MSF_from_lbaCeiling(f) ==
    LET minute == (f + FRAMES_PER_MINUTE - 1) \div FRAMES_PER_MINUTE
        rest == f - minute * FRAMES_PER_MINUTE
    IN  [minute |-> minute,
         second |-> rest \div FRAMES_PER_SECOND,
         frame |-> rest % FRAMES_PER_SECOND]

\* MSF.from_lba: divmod is floor division with a non-negative remainder.
MSF_from_lba(f) ==
    LET minute == f \div FRAMES_PER_MINUTE
        rest == f % FRAMES_PER_MINUTE
    IN  [minute |-> minute,
         second |-> rest \div FRAMES_PER_SECOND,
         frame |-> rest % FRAMES_PER_SECOND]

\* MSF values handed to the conversions, valid and not.
MsfInputs ==
    [minute : {-1, 0, 1, 73}, second : {-1, 0, 59, 60},
     frame : {-1, 0, 74, 75}]

\* MSF.from_lba(msf.lba)
MsfRoundTrip ==
    /\ lastOp = "none"
    /\ \E p \in MsfInputs :
         /\ lastArg' = p
         /\ result' = Produced([lba |-> MSF_lba(p),
                                msf |-> MSF_from_lba(MSF_lba(p))])
    /\ lastOp' = "MSF.from_lba"
    /\ UNCHANGED <<lifecycleVars, ioctlLog, decoded>>

\* Arguments of TrackIndex(track, index); isInt is the isinstance test.
TrackIndexArgs ==
    {[isInt |-> TRUE, n |-> n] : n \in {-1, 0, 1, 99, 100}}
    \cup {[isInt |-> FALSE, n |-> 0]}

\* TrackIndex.__init__ accepting track = TRACK_MAX + 1.
TrackIndexInitLoose(track, index) ==
    IF ~track.isInt THEN Raised("TypeError")
    ELSE IF ~(0 <= track.n /\ track.n <= TRACK_MAX + 1)
         THEN Raised("ValueError")
    ELSE IF ~index.isInt THEN Raised("TypeError")
    ELSE IF ~(0 <= index.n /\ index.n <= INDEX_MAX) THEN Raised("ValueError")
    ELSE Produced([track |-> track.n, index |-> index.n])

\* TrackIndex.__init__ and the track and index properties.
TrackIndexInit(track, index) ==
    IF ~track.isInt THEN Raised("TypeError")
    ELSE IF ~(0 <= track.n /\ track.n <= TRACK_MAX) THEN Raised("ValueError")
    ELSE IF ~index.isInt THEN Raised("TypeError")
    ELSE IF ~(0 <= index.n /\ index.n <= INDEX_MAX) THEN Raised("ValueError")
    ELSE Produced([track |-> track.n, index |-> index.n])

\* TrackIndex(track, index)
NewTrackIndex ==
    /\ lastOp = "none"
    /\ \E track \in TrackIndexArgs, index \in TrackIndexArgs :
         /\ lastArg' = [track |-> track, index |-> index]
         /\ result' = TrackIndexInit(track, index)
    /\ lastOp' = "TrackIndex"
    /\ UNCHANGED <<lifecycleVars, ioctlLog, decoded>>

\* Digits of the X presentation type.
HexChars ==
    <<"0", "1", "2", "3", "4", "5", "6", "7",
      "8", "9", "A", "B", "C", "D", "E", "F">>

\* Uppercase hexadecimal digits of n >= 0, most significant first.
RECURSIVE HexDigits(_)
HexDigits(n) ==
    IF n < 16 THEN <<HexChars[n + 1]>>
    ELSE HexDigits(n \div 16) \o <<HexChars[(n % 16) + 1]>>

\* Zero fill on the left up to a minimum width; longer text is kept whole.
RECURSIVE ZeroFill(_, _)
ZeroFill(digits, w) ==
    IF Len(digits) >= w THEN digits ELSE ZeroFill(<<"0">> \o digits, w)

\* f"{n:0wX}": the sign, when there is one, counts towards the width.
FormatHex(n, w) ==
    IF n < 0 THEN <<"-">> \o ZeroFill(HexDigits(-n), w - 1)
    ELSE ZeroFill(HexDigits(n), w)

\* The seed without the leadout offset.
SeedWithoutLeadout(d) ==
    FormatHex(d.first_track, 2) \o FormatHex(d.last_track, 2)

\* The text the hash is created with.
Seed(d) ==
    LET leadout == d.track_information[Len(d.track_information)]
    IN  FormatHex(d.first_track, 2) \o FormatHex(d.last_track, 2)
        \o FormatHex(leadout.start_frame + GAP_FRAMES, 8)

\* The text of the updates the loop over track_information makes for the
\* entries lo..hi, in order: one field per audio entry.  The range is
\* split in halves to keep the evaluation shallow.
RECURSIVE AudioText(_, _, _)
AudioText(ti, lo, hi) ==
    IF lo > hi THEN <<>>
    ELSE IF lo = hi
    THEN IF ti[lo].track_type = "audio"
         THEN FormatHex(ti[lo].start_frame + GAP_FRAMES, 8)
         ELSE <<>>
    ELSE LET mid == (lo + hi) \div 2
         IN  AudioText(ti, lo, mid) \o AudioText(ti, mid + 1, hi)

\* n_audio_tracks when the loop over track_information ends.
AudioCount(ti) ==
    Cardinality({i \in 1..Len(ti) : ti[i].track_type = "audio"})

\* for _ in range(n_audio_tracks, 99): update(b"00000000")
ZeroFields(n_audio_tracks) ==
    LET rounds == IF n_audio_tracks < 99 THEN 99 - n_audio_tracks ELSE 0
    IN  [j \in 1..(8 * rounds) |-> "0"]

\* The digest and its base64 text are a function of the bytes hashed; the
\* identifier is represented by those bytes.
Sha1Base64(bytes) == [hashed |-> bytes]

\* DiscInformation.musicbrainz_id without the assert statement.
MusicbrainzIdUnasserted(d) ==
    LET ti == d.track_information IN
    IF Len(ti) = 0 THEN Raised("IndexError")
    ELSE Produced(Sha1Base64(Seed(d) \o AudioText(ti, 1, Len(ti))
                             \o ZeroFields(AudioCount(ti))))

\* DiscInformation.musicbrainz_id
MusicbrainzId(d) ==
    LET ti == d.track_information IN
    IF Len(ti) = 0 THEN Raised("IndexError")
    ELSE IF ti[Len(ti)].track_type # "leadout" THEN Raised("AssertionError")
    ELSE Produced(Sha1Base64(Seed(d) \o AudioText(ti, 1, Len(ti))
                             \o ZeroFields(AudioCount(ti))))

\* Largest number of audio entries in the disc metadata handed in.
MaxAudio == 100

\* Disc metadata handed to the identifier.  A disc has n audio tracks, a
\* data track before or after them or none, and a leadout entry that is
\* last, first or missing; the track sequence may be empty.
AudioCounts == {0, 1, 2, MaxAudio - 1, MaxAudio}
DataPlaces == {"none", "first", "last"}
LeadoutPlaces == {"last", "first", "missing"}
FirstFrames == {-151, 0, 32}
TrackFrames == 1000

TrackEntry(track, track_type, start_frame) ==
    [track |-> track, track_type |-> track_type, flags |-> 0,
     start_frame |-> start_frame]

MakeTracks(n, data, f0) ==
    LET m == n + (IF data = "none" THEN 0 ELSE 1)
        IsData(i) == \/ data = "first" /\ i = 1
                     \/ data = "last" /\ i = m
    IN  [i \in 1..m |->
            TrackEntry(i, IF IsData(i) THEN "data" ELSE "audio",
                       f0 + (i - 1) * TrackFrames)]

MakeDisc(n, data, place, f0) ==
    LET tracks == MakeTracks(n, data, f0)
        leadout == TrackEntry(LEADOUT_TRACK, "leadout",
                              f0 + Len(tracks) * TrackFrames)
    IN  [first_track |-> 1,
         last_track |-> Len(tracks),
         track_information |->
            CASE place = "last" -> tracks \o <<leadout>>
              [] place = "first" -> <<leadout>> \o tracks
              [] OTHER -> tracks]

Discs ==
    {MakeDisc(n, data, place, f0) :
        n \in AudioCounts, data \in DataPlaces, place \in LeadoutPlaces,
        f0 \in FirstFrames}

\* disc.musicbrainz_id
MusicbrainzIdOp ==
    /\ lastOp = "none"
    /\ \E d \in Discs :
         /\ lastArg' = d
         /\ result' = MusicbrainzId(d)
    /\ lastOp' = "musicbrainz_id"
    /\ UNCHANGED <<lifecycleVars, ioctlLog, decoded>>

\* The same disc with the start_frame of entry k moved by one frame.
WithStartFrame(d, k) ==
    [d EXCEPT !.track_information[k].start_frame = @ + 1]

\* Entries whose start_frame is moved: the first two and the last two.
ChangedIndexes(d) ==
    LET len == Len(d.track_information)
    IN  {1, 2, len - 1, len} \cap (1..len)

\* musicbrainz_id of two discs that differ in one start_frame.
MusicbrainzIdPair ==
    /\ lastOp = "none"
    /\ \E d \in Discs :
         \E k \in ChangedIndexes(d) :
             /\ lastArg' = [disc |-> d, changed |-> k]
             /\ result' = Produced([a |-> MusicbrainzId(d),
                                    b |-> MusicbrainzId(WithStartFrame(d, k))])
    /\ lastOp' = "musicbrainz_id pair"
    /\ UNCHANGED <<lifecycleVars, ioctlLog, decoded>>

\* No drive object is involved in the value types; each behaviour is one
\* evaluation.
InitCD == Init

NextCD ==
    \/ MsfRoundTrip
    \/ NewTrackIndex
    \/ MusicbrainzIdOp
    \/ MusicbrainzIdPair

SpecCD == InitCD /\ [][NextCD]_vars

(***************************************************************************)
(* Descriptor ownership (checked under Spec).                              *)
(***************************************************************************)

\* A descriptor that from_filename opened.
OpenedByFilename == viaFilename /\ fdState # "unopened"

\* C1: over the life of a drive object built by from_filename, os.close is
\* issued on the descriptor exactly once: never twice, and once as soon as
\* the construction has failed or the finalizer has run.
C1_ClosedExactlyOnce ==
    OpenedByFilename =>
        /\ closeCalls <= 1
        /\ (pc = "failed" \/ delRuns >= 1) => closeCalls = 1

\* C2: when from_filename has opened the device and construction fails, the
\* descriptor has been closed when the error reaches the caller, and the
\* error that reaches the caller is the one construction raised.
C2_ClosedBeforeErrorPropagates ==
    (OpenedByFilename /\ pc = "failed") =>
        /\ fdState \in {"closed", "reused"}
        /\ closeCalls >= 1
        /\ raised # "none"
        /\ propagated = raised

\* from_filename has failed in the backend initializer, after the base
\* initializer stored the handle, and the error has reached the caller.
C2_Witness ==
    /\ OpenedByFilename /\ pc = "failed" /\ delRuns = 0
    /\ allocated /\ handle = Fd /\ owned
    /\ raised = "AttributeError" /\ propagated = "AttributeError"
    /\ fdState = "closed"

\* C3: once the finalizer has released an owned descriptor (the handle is
\* -1), a further run of the finalizer issues no close and leaves the
\* descriptor, the handle and the owned flag as they were.
C3_ReleaseIdempotent ==
    [][(owned /\ handle = Released /\ delRuns' = delRuns + 1) =>
          /\ closeCalls' = closeCalls
          /\ foreignCloses' = foreignCloses
          /\ fdState' = fdState
          /\ handle' = handle
          /\ owned' = owned
          /\ lastDel' = "noop"]_vars

\* The finalizer has run again after it released the descriptor, also
\* after the descriptor number was handed out again.
C3_Witness ==
    /\ owned /\ handle = Released /\ delRuns >= 2 /\ lastDel = "noop"
    /\ closeCalls = 1 /\ fdState = "reused"

(***************************************************************************)
(* Operations of the backend (checked under SpecDev).                      *)
(***************************************************************************)

\* No device-control call of the last operation failed.
NoQueryFailed == \A i \in 1..Len(ioctlLog) : ioctlLog[i].ret >= 0

\* The requests of the last operation, without the device's answers.
Requests == [i \in 1..Len(ioctlLog) |->
                [cmd |-> ioctlLog[i].cmd, arg |-> ioctlLog[i].arg]]

\* C4: a get_disc_information call whose device queries all succeed returns
\* a DiscInformation with last_track - first_track + 2 entries, in ascending
\* track order, the last one typed leadout (stated for the headers with
\* first_track <= last_track).
C4_DiscInformationComposed ==
    (/\ lastOp = "get_disc_information"
     /\ NoQueryFailed
     /\ lastArg.first <= lastArg.last) =>
        /\ result.kind = "ok"
        /\ Len(result.discs) = 1
        /\ LET ti == result.discs[1].track_information
               n == lastArg.last - lastArg.first + 2
           IN  /\ Len(ti) = n
               /\ \A k \in 1..(n - 1) : ti[k].track = lastArg.first + k - 1
               /\ ti[n].track = LEADOUT_TRACK
               /\ ti[n].track_type = "leadout"

\* The requests C5 expects of a call that met no device error.
ExpectedRequests(first, last) ==
    <<[cmd |-> CDROMREADTOCHDR, arg |-> 0]>>
    \o [k \in 1..(IF last >= first THEN last - first + 1 ELSE 0) |->
           [cmd |-> CDROMREADTOCENTRY, arg |-> first + k - 1]]
    \o <<[cmd |-> CDROMREADTOCENTRY, arg |-> LEADOUT_TRACK]>>

\* C5: get_disc_information issues one TOC-header query, then one TOC-entry
\* query per track first_track..last_track in ascending order, then one
\* TOC-entry query for the leadout sentinel, and nothing else.
C5_QueryOrder ==
    (lastOp = "get_disc_information" /\ NoQueryFailed) =>
        Requests = ExpectedRequests(lastArg.first, lastArg.last)

\* C6: get_status never fails: it queries the device and returns no_disc,
\* tray_open, not_ready or ok for the codes 1, 2, 3, 4 and unknown for
\* every other code.
C6_GetStatusNeverFails ==
    lastOp = "get_status" =>
        /\ result.kind = "ok"
        /\ Len(ioctlLog) = 1
        /\ LET code == ioctlLog[1].ret IN
             result.status = CASE code = 1 -> "no_disc"
                               [] code = 2 -> "tray_open"
                               [] code = 3 -> "not_ready"
                               [] code = 4 -> "ok"
                               [] OTHER -> "unknown"

\* C7: seek with a position failing is_valid, select_slot with a negative
\* slot and get_track_information with a track that is neither in 1..99 nor
\* the leadout sentinel fail with the invalid-argument error (ValueError)
\* and issue no device-control call.
C7_InvalidArgumentBeforeDevice ==
    /\ (/\ lastOp = "seek" /\ lastArg.isMSF
        /\ ~(/\ lastArg.minute >= 0
             /\ lastArg.second >= 0 /\ lastArg.second < 60
             /\ lastArg.frame >= 0 /\ lastArg.frame < 75))
           => (result.kind = "ValueError" /\ ioctlLog = <<>>)
    /\ (lastOp = "select_slot" /\ lastArg.isInt /\ lastArg.value < 0)
           => (result.kind = "ValueError" /\ ioctlLog = <<>>)
    /\ (/\ lastOp = "get_track_information"
        /\ lastArg.track \notin 1..99
        /\ lastArg.track # LEADOUT_TRACK)
           => (result.kind = "ValueError" /\ ioctlLog = <<>>)

\* C8: on the Linux backend seek with a valid position ends in the
\* not-supported error (NotImplementedError), never in an OS error, and
\* issues no device-control call, whether the drive holds its descriptor or
\* has released it; an invalid position is rejected as invalid, not as
\* unsupported.
C8_SeekUnsupported ==
    (lastOp = "seek" /\ lastArg.isMSF) =>
        /\ ioctlLog = <<>>
        /\ result.kind # "OSError"
        /\ IF /\ lastArg.minute >= 0
              /\ lastArg.second >= 0 /\ lastArg.second < 60
              /\ lastArg.frame >= 0 /\ lastArg.frame < 75
           THEN result.kind = "NotImplementedError"
           ELSE result.kind = "ValueError"

\* seek was called with the valid position 73:59:74 on a drive that has
\* released its descriptor.
C8_Witness ==
    /\ lastOp = "seek" /\ lastArg.isMSF
    /\ lastArg.minute = 73 /\ lastArg.second = 59 /\ lastArg.frame = 74
    /\ handle = Released
    /\ result.kind = "NotImplementedError"

\* C9: in every operation, a device-control call that returns a negative
\* result is the operation's last call and ends it with an OS error
\* carrying the platform error code and its message; an operation none of
\* whose calls returned a negative result does not end with an OS error.
C9_NegativeResultIsOSError ==
    /\ \A i \in 1..Len(ioctlLog) :
          ioctlLog[i].ret < 0 =>
              /\ i = Len(ioctlLog)
              /\ result.kind = "OSError"
              /\ result.errno = ioctlLog[i].errno
              /\ result.message = StrError(ioctlLog[i].errno)
    /\ NoQueryFailed => result.kind # "OSError"

\* A TOC-entry query answered -1 with ENOMEDIUM, and one answered 0.
C9_Witness ==
    /\ lastOp = "get_track_information"
    /\ Len(ioctlLog) = 1
    /\ ioctlLog[1].ret = -1 /\ ioctlLog[1].errno = ENOMEDIUM
    /\ result.kind = "OSError" /\ result.errno = ENOMEDIUM

\* The data-track bit of a control/address byte: bit 2 of the high nibble.
ByteHasDataBit(b) == (b \div 64) % 2 = 1

\* C10 as claimed: the decode step yields TrackType.data whenever the
\* data-track bit is set, for every queried track number.
C10_DataBitYieldsData ==
    \A i \in 1..Len(decoded) :
        ByteHasDataBit(decoded[i].adr_ctrl) => decoded[i].track_type = "data"

\* C10 as amended: the decode step yields TrackType.data whenever the
\* data-track bit is set and the queried track is not the leadout sentinel
\* 0xAA; for the sentinel it yields TrackType.leadout.
C10_DataBitYieldsDataUnlessLeadout ==
    \A i \in 1..Len(decoded) :
        ByteHasDataBit(decoded[i].adr_ctrl) =>
            decoded[i].track_type =
                IF decoded[i].track = LEADOUT_TRACK THEN "leadout" ELSE "data"

\* Track 99 was queried and the device answered the byte 0xF0: data bit and
\* the three other control bits set.
C10_Witness ==
    /\ lastOp = "get_track_information"
    /\ Len(decoded) = 1
    /\ decoded[1].track = 99 /\ decoded[1].adr_ctrl = 240
    /\ decoded[1].track_type = "data"

\* C11: the decoded flags are 0 when the queried track is the leadout
\* sentinel, the incremental-recording bit of the control field (0 or 1)
\* when the data-track bit is set, and the whole 4-bit control field
\* otherwise; the flags of an audio track never hold the data-track bit.
C11_DecodedFlags ==
    \A i \in 1..Len(decoded) :
        LET d == decoded[i]
            field == (d.adr_ctrl \div 16) % 16
        IN  /\ d.flags = IF d.track = LEADOUT_TRACK THEN 0
                         ELSE IF ByteHasDataBit(d.adr_ctrl)
                         THEN (d.adr_ctrl \div 16) % 2
                         ELSE field
            /\ d.flags \in 0..15
            /\ (d.track_type = "data") => d.flags \in {0, 1}
            /\ (d.track_type = "audio") => (d.flags \div 4) % 2 = 0

\* Track 1 was queried and the device answered the byte 0xE0: a data track
\* with the quad-channel and copy-permitted bits set decodes to the flags 0.
C11_Witness ==
    /\ lastOp = "get_track_information"
    /\ Len(decoded) = 1
    /\ decoded[1].track = 1 /\ decoded[1].adr_ctrl = 224
    /\ decoded[1].track_type = "data" /\ decoded[1].flags = 0

\* C12: whenever the TOC-entry request of get_track_information succeeds,
\* the call returns a TrackInformation with the queried track, the decoded
\* type and flags, and the device's logical-block address as start_frame.
C12_TrackInformationReturned ==
    (/\ lastOp = "get_track_information"
     /\ Len(ioctlLog) = 1
     /\ NoQueryFailed) =>
        /\ result.kind = "ok"
        /\ Len(result.tracks) = 1
        /\ Len(decoded) = 1
        /\ result.tracks[1].track_type = decoded[1].track_type
        /\ result.tracks[1].flags = decoded[1].flags
        /\ result.tracks[1].start_frame = lastArg.entry.lba

\* C19: play, pause, stop, eject, close_tray, lock, unlock and reset issue
\* exactly one device-control call, whether it succeeds or fails; in every
\* operation a call that returned a negative result is the last call of the
\* operation; a get_disc_information call that met a failing query returns
\* no DiscInformation.
C19_NoRetry ==
    /\ lastOp \in {"play", "pause", "stop", "eject", "close_tray", "lock",
                   "unlock", "reset"} => Len(ioctlLog) = 1
    /\ \A i \in 1..Len(ioctlLog) : \A j \in 1..Len(ioctlLog) :
          (ioctlLog[i].ret < 0) => j <= i
    /\ (lastOp = "get_disc_information" /\ ~NoQueryFailed) =>
          (result.kind = "OSError" /\ result.discs = <<>>)

\* eject was answered -1 with EIO and made that one call only.
C19_Witness ==
    /\ lastOp = "eject"
    /\ Len(ioctlLog) = 1 /\ ioctlLog[1].ret = -1 /\ ioctlLog[1].errno = EIO
    /\ result.kind = "OSError"

(***************************************************************************)
(* A descriptor the caller keeps (checked under Spec).                     *)
(***************************************************************************)

\* C20: a drive object constructed with owned = false never closes its
\* descriptor: whatever operations and finalizer runs follow, no os.close
\* is issued, the descriptor stays open, and the object reports the handle
\* it was given and owned = false.
C20_UnownedNeverCloses ==
    (~viaFilename /\ ~ownedArg /\ pc # "idle") =>
        /\ closeCalls = 0
        /\ fdState = "open"
        /\ handle # NoHandle => (handle = Fd /\ ~owned)

\* An unowned drive on which eject was called and the finalizer ran twice.
C20_Witness ==
    /\ ~viaFilename /\ ~ownedArg /\ pc = "constructed"
    /\ delRuns >= 2 /\ lastDel = "noop"
    /\ lastOp = "eject"
    /\ fdState = "open" /\ handle = Fd

\* C14: on a drive whose backend does not implement changers slot_count
\* yields 1 and select_slot fails as unsupported, both without a device
\* call; select_slot reaches the device only through the backend that
\* implements it.
C14_SingleSlotDefaults ==
    /\ lastOp = "CDROMDrive.slot_count" =>
          (result.kind = "ok" /\ result.int = 1 /\ ioctlLog = <<>>)
    /\ lastOp = "CDROMDrive.select_slot" =>
          (result.kind \in {"ValueError", "NotImplementedError"}
           /\ ioctlLog = <<>>)
    /\ (\E i \in 1..Len(ioctlLog) : ioctlLog[i].cmd = CDROM_SELECT_DISC)
          => lastOp = "select_slot"

\* C13: a valid position converted to an LBA and back with from_lba is
\* the same minute, second and frame.
C13_MsfRoundTrip ==
    (lastOp = "MSF.from_lba" /\ is_valid(lastArg)) =>
        /\ result.kind = "ok"
        /\ result.value.lba = lastArg.minute * 4500 + lastArg.second * 75
                              + lastArg.frame
        /\ result.value.msf = lastArg

C13_Witness ==
    /\ lastOp = "MSF.from_lba"
    /\ lastArg = [minute |-> 73, second |-> 59, frame |-> 74]
    /\ result.value.lba = 332999
    /\ result.value.msf = lastArg

\* C15: for integers, TrackIndex(track, index) constructs exactly when
\* both are within 0..99 and then reports the values given; outside that
\* range it fails with ValueError and no TrackIndex exists.
C15_TrackIndexRange ==
    (lastOp = "TrackIndex" /\ lastArg.track.isInt /\ lastArg.index.isInt) =>
        LET t == lastArg.track.n
            i == lastArg.index.n
        IN  IF 0 <= t /\ t <= 99 /\ 0 <= i /\ i <= 99
            THEN /\ result.kind = "ok"
                 /\ result.value = [track |-> t, index |-> i]
            ELSE result.kind = "ValueError"

C15_Witness ==
    /\ lastOp = "TrackIndex"
    /\ lastArg.track = [isInt |-> TRUE, n |-> 99]
    /\ lastArg.index = [isInt |-> TRUE, n |-> 99]
    /\ result.kind = "ok"
    /\ result.value = [track |-> 99, index |-> 99]

\* The last entry of the track sequence is typed leadout.
LeadoutIsLast(d) ==
    /\ Len(d.track_information) > 0
    /\ d.track_information[Len(d.track_information)].track_type = "leadout"

\* C16: when the last entry is the leadout the bytes hashed are the
\* 12-character seed and exactly 99 eight-character fields: the offsets of
\* the audio entries in disc order, then "00000000" for the rest, whatever
\* the number of entries.
C16_NinetyNineFields ==
    (lastOp = "musicbrainz_id" /\ LeadoutIsLast(lastArg)) =>
        LET IsAudio(e) == e.track_type = "audio"
            audio == SelectSeq(lastArg.track_information, IsAudio)
            n == Len(audio)
        IN  /\ result.kind = "ok"
            /\ Len(result.value.hashed) = 12 + 99 * 8
            /\ \A j \in 1..99 :
                 SubSeq(result.value.hashed, 12 + 8 * (j - 1) + 1, 12 + 8 * j)
                   = IF j <= n
                     THEN FormatHex(audio[j].start_frame + 150, 8)
                     ELSE <<"0", "0", "0", "0", "0", "0", "0", "0">>

\* C17: the identifier computation fails, producing nothing, when the
\* track sequence is empty or its last entry is not the leadout, and
\* produces an identifier only when the last entry is the leadout.
C17_LeadoutContract ==
    lastOp = "musicbrainz_id" =>
        IF LeadoutIsLast(lastArg)
        THEN result.kind = "ok"
        ELSE result.kind \in {"AssertionError", "IndexError"}

C17_Witness ==
    /\ lastOp = "musicbrainz_id"
    /\ Len(lastArg.track_information) > 1
    /\ lastArg.track_information[1].track_type = "leadout"
    /\ ~LeadoutIsLast(lastArg)
    /\ result.kind = "AssertionError"

\* C18 as stated: two discs that differ only in the start_frame of one
\* entry, of whatever type, have different hashed inputs.
C18_AnyStartFrameChangesId ==
    (/\ lastOp = "musicbrainz_id pair"
     /\ result.value.a.kind = "ok"
     /\ result.value.b.kind = "ok") =>
        result.value.a.value.hashed # result.value.b.value.hashed

\* C18: two discs with the leadout last that differ only in the
\* start_frame of one audio entry or of the final leadout entry have
\* different hashed inputs.
C18_HashedStartFrameChangesId ==
    (/\ lastOp = "musicbrainz_id pair"
     /\ LeadoutIsLast(lastArg.disc)
     /\ lastArg.disc.track_information[lastArg.changed].track_type
            \in {"audio", "leadout"}) =>
        /\ result.value.a.kind = "ok"
        /\ result.value.b.kind = "ok"
        /\ result.value.a.value.hashed # result.value.b.value.hashed

C18_Witness ==
    /\ lastOp = "musicbrainz_id pair"
    /\ LeadoutIsLast(lastArg.disc)
    /\ lastArg.changed = Len(lastArg.disc.track_information)
    /\ result.value.a.kind = "ok"
    /\ result.value.a.value.hashed # result.value.b.value.hashed

\* C21: for every integer track passed to get_track_information, the
\* track number in the TOC-entry request sent to the device (track mod 256)
\* equals the track number get_track_information records for the
\* TrackInformation, and the entry is decoded as leadout exactly when the
\* device was asked for the leadout sentinel 0xAA.
C21_RequestedTrackIsRecorded ==
    (lastOp = "get_track_information" /\ Len(decoded) = 1) =>
        /\ Len(ioctlLog) = 1
        /\ ioctlLog[1].cmd = CDROMREADTOCENTRY
        /\ ioctlLog[1].arg = lastArg.track % 256
        /\ decoded[1].track = ioctlLog[1].arg
        /\ (decoded[1].track_type = "leadout")
              <=> (ioctlLog[1].arg = LEADOUT_TRACK)

====
